---- MODULE Spec2Model ----
(***************************************************************************)
(* Model of simulador_payback.py: the Streamlit script that projects the   *)
(* cumulative ownership cost of a combustion car and of an electric car    *)
(* year by year and reports the break-even point.                          *)
(*                                                                         *)
(* Numbers are IEEE 754 doubles, computed bit for bit: every operation     *)
(* rounds to the nearest double, decimal literals and cells are the        *)
(* nearest double. A cell of a selected row is a numpy.float64 when its    *)
(* column has dtype float64, and a Python float when the column has dtype  *)
(* object (some row of it holds text). A value computed from a             *)
(* numpy.float64 is a numpy.float64: its round is numpy's, and a division  *)
(* by zero yields inf or nan. A value computed from Python floats alone is *)
(* a Python float: its round is the builtin, and a division by zero raises *)
(* ZeroDivisionError. The values read back from the DataFrame are          *)
(* numpy.float64.                                                          *)
(***************************************************************************)
EXTENDS Integers, Sequences, FiniteSets, TLC

VARIABLES
    pc,                    \* position of the script run
    config,                \* the 'Configuración' sheet: Parámetro -> Valor
    nombre_gas,            \* selected 'Marca Modelo' of the combustion car
    nombre_elec,           \* selected 'Marca Modelo' of the electric car
    consumo_km_l,          \* row_gas["Consumo (km/l)"]
    consumo_kwh_km,        \* row_elec["Consumo (kWh/km)"]
    precio_gas_usd,        \* row_gas["Precio (USD)"]
    precio_elec_usd_base,  \* row_elec["Precio (USD)"]
    dtype_km_l,            \* dtype of the column "Consumo (km/l)"
    dtype_kwh_km,          \* dtype of the column "Consumo (kWh/km)"
    dtype_precio,          \* dtype of the column "Precio (USD)"
    KM_ANUALES,            \* sidebar slider
    ANIOS,                 \* sidebar slider
    INCLUIR_IGV,           \* sidebar checkbox
    precio_elec_usd,       \* incentive-adjusted price of the electric car
    anio,                  \* next value of the loop variable
    costo_acum_gas,        \* unrounded accumulator
    costo_acum_elec,       \* unrounded accumulator
    resultados,            \* list of yearly records
    x1, x2, y1, y2,        \* the two samples of the interpolation
    pendiente,
    interseccion,
    mensaje,               \* which st.error / st.success / st.info was shown
    anterior               \* checkbox and table of the previous run of the script

vars == << pc, config, nombre_gas, nombre_elec, consumo_km_l, consumo_kwh_km,
           precio_gas_usd, precio_elec_usd_base, dtype_km_l, dtype_kwh_km,
           dtype_precio, KM_ANUALES, ANIOS, INCLUIR_IGV,
           precio_elec_usd, anio, costo_acum_gas, costo_acum_elec, resultados,
           x1, x2, y1, y2, pendiente, interseccion, mensaje, anterior >>

entradas == << nombre_gas, nombre_elec, consumo_km_l, consumo_kwh_km,
               precio_gas_usd, precio_elec_usd_base, dtype_km_l, dtype_kwh_km,
               dtype_precio, KM_ANUALES, ANIOS >>

(***************************************************************************)
(* Natural numbers of any size: little-endian sequences of 15-bit limbs    *)
(***************************************************************************)
Base == 32768
LimbBits == 15
MantBits == 53

RECURSIVE Pow2(_)
Pow2(k) == IF k = 0 THEN 1 ELSE 2 * Pow2(k - 1)

RECURSIVE BTrim(_)
BTrim(x) == IF x = << >> THEN x
            ELSE IF x[Len(x)] = 0 THEN BTrim(SubSeq(x, 1, Len(x) - 1)) ELSE x

RECURSIVE BFromInt(_)
BFromInt(n) == IF n = 0 THEN << >> ELSE << n % Base >> \o BFromInt(n \div Base)

RECURSIVE BToInt(_)
BToInt(x) == IF x = << >> THEN 0 ELSE x[1] + Base * BToInt(Tail(x))

Limb(x, i) == IF i <= Len(x) THEN x[i] ELSE 0

RECURSIVE BCmpFrom(_, _, _)
BCmpFrom(a, b, i) ==
    IF i = 0 THEN 0
    ELSE IF Limb(a, i) < Limb(b, i) THEN -1
    ELSE IF Limb(a, i) > Limb(b, i) THEN 1
    ELSE BCmpFrom(a, b, i - 1)
\* -1, 0, 1 as a < b, a = b, a > b
BCmp(a, b) == BCmpFrom(a, b, IF Len(a) > Len(b) THEN Len(a) ELSE Len(b))

RECURSIVE BAddC(_, _, _, _)
BAddC(a, b, i, c) ==
    IF i > Len(a) /\ i > Len(b)
    THEN (IF c = 0 THEN << >> ELSE << c >>)
    ELSE LET t == Limb(a, i) + Limb(b, i) + c
         IN  << t % Base >> \o BAddC(a, b, i + 1, t \div Base)
BAdd(a, b) == BAddC(a, b, 1, 0)

\* a - b for a >= b
RECURSIVE BSubC(_, _, _, _)
BSubC(a, b, i, c) ==
    IF i > Len(a) THEN << >>
    ELSE LET t == Limb(a, i) - Limb(b, i) - c
         IN  << (t + Base) % Base >> \o BSubC(a, b, i + 1, IF t < 0 THEN 1 ELSE 0)
BSub(a, b) == BTrim(BSubC(a, b, 1, 0))

\* a * k for 0 <= k < Base
RECURSIVE BMulC(_, _, _, _)
BMulC(a, k, i, c) ==
    IF i > Len(a) THEN (IF c = 0 THEN << >> ELSE << c >>)
    ELSE LET t == a[i] * k + c
         IN  << t % Base >> \o BMulC(a, k, i + 1, t \div Base)
BMulSmall(a, k) == IF k = 0 THEN << >> ELSE BMulC(a, k, 1, 0)

RECURSIVE BMul(_, _)
BMul(a, b) ==
    IF b = << >> \/ a = << >> THEN << >>
    ELSE BAdd(BMulSmall(a, b[1]),
              LET r == BMul(a, Tail(b)) IN IF r = << >> THEN r ELSE << 0 >> \o r)

Zeros(n) == [i \in 1 .. n |-> 0]

\* a * 2^k
BShl(a, k) ==
    IF a = << >> THEN a
    ELSE Zeros(k \div LimbBits) \o BMulSmall(a, Pow2(k % LimbBits))

\* floor(a / 2^k)
BShr(a, k) ==
    LET w == k \div LimbBits
        r == k % LimbBits
        p == Pow2(r)
        q == Pow2(LimbBits - r)
        n == Len(a) - w
    IN  IF n <= 0 THEN << >>
        ELSE BTrim([i \in 1 .. n |->
                (a[i + w] \div p) + (Limb(a, i + w + 1) % p) * q])

\* bit i (from 0) of a
BBit(a, i) == (Limb(a, i \div LimbBits + 1) \div Pow2(i % LimbBits)) % 2

\* some of the low k bits of a is set
BLowNonZero(a, k) ==
    \/ \E i \in 1 .. (k \div LimbBits) : Limb(a, i) # 0
    \/ Limb(a, k \div LimbBits + 1) % Pow2(k % LimbBits) # 0

RECURSIVE IntBitLen(_)
IntBitLen(n) == IF n = 0 THEN 0 ELSE 1 + IntBitLen(n \div 2)
\* number of bits of a (a trimmed)
BBitLen(a) == IF a = << >> THEN 0
              ELSE LimbBits * (Len(a) - 1) + IntBitLen(a[Len(a)])

(***************************************************************************)
(* IEEE 754 binary64 values (numpy float64, Python float):                 *)
(*   << s, M, E >>  s in {1, -1}, M the 53-bit significand                 *)
(*                  (2^52 <= M < 2^53, four limbs), value s * M * 2^E      *)
(*   << s, <<>>, 0 >>   +0.0 and -0.0                                      *)
(*   << s, <<>>, 1 >>   +inf and -inf                                      *)
(*   << 0, <<>>, 0 >>   nan                                                *)
(* Rounding is to nearest, ties to even. Overflow and subnormals are out   *)
(* of the range of the amounts of the script and are not modelled.         *)
(***************************************************************************)
NaN == << 0, << >>, 0 >>
PInf == << 1, << >>, 1 >>
NInf == << -1, << >>, 1 >>
PZero == << 1, << >>, 0 >>
NZero == << -1, << >>, 0 >>
Nulo == << >>

Abs(n) == IF n < 0 THEN -n ELSE n
IsNaN(a) == a = NaN
IsInf(a) == a = PInf \/ a = NInf
IsZero(a) == a = PZero \/ a = NZero
IsFin(a) == a[2] # << >> \/ IsZero(a)
Neg(a) == a[1] < 0
Sgn(neg) == IF neg THEN -1 ELSE 1
SignedZero(neg) == << Sgn(neg), << >>, 0 >>
SignedInf(neg) == << Sgn(neg), << >>, 1 >>

\* the double nearest to s * P * 2^E, for P > 0
RoundBig(s, P, E) ==
    LET L == BBitLen(P) IN
    IF L <= MantBits
    THEN << s, BShl(P, MantBits - L), E - (MantBits - L) >>
    ELSE LET sh == L - MantBits
             q == BShr(P, sh)
             up == BBit(P, sh - 1) = 1
                   /\ (BLowNonZero(P, sh - 1) \/ q[1] % 2 = 1)
             q1 == IF up THEN BAdd(q, << 1 >>) ELSE q
         IN  IF BBitLen(q1) > MantBits
             THEN << s, BShr(q1, 1), E + sh + 1 >>
             ELSE << s, q1, E + sh >>

\* float(n) for an integer n
F(n) == IF n = 0 THEN PZero ELSE RoundBig(Sgn(n < 0), BFromInt(Abs(n)), 0)

FNeg(a) == IF IsNaN(a) THEN NaN ELSE << -a[1], a[2], a[3] >>

\* sum of two finite non-zero doubles, a[3] >= b[3]
AddAligned(a, b) ==
    LET d == a[3] - b[3] IN
    IF d > MantBits + 2 THEN a
    ELSE LET A == BShl(a[2], d)
             c == BCmp(A, b[2])
         IN  IF a[1] = b[1] THEN RoundBig(a[1], BAdd(A, b[2]), b[3])
             ELSE IF c = 0 THEN PZero
             ELSE IF c > 0 THEN RoundBig(a[1], BSub(A, b[2]), b[3])
             ELSE RoundBig(b[1], BSub(b[2], A), b[3])

FAdd(a, b) ==
    IF IsNaN(a) \/ IsNaN(b) THEN NaN
    ELSE IF IsInf(a) /\ IsInf(b) THEN (IF a = b THEN a ELSE NaN)
    ELSE IF IsInf(a) THEN a
    ELSE IF IsInf(b) THEN b
    ELSE IF IsZero(a) /\ IsZero(b) THEN SignedZero(Neg(a) /\ Neg(b))
    ELSE IF IsZero(a) THEN b
    ELSE IF IsZero(b) THEN a
    ELSE IF a[3] >= b[3] THEN AddAligned(a, b) ELSE AddAligned(b, a)

FSub(a, b) == FAdd(a, FNeg(b))

FMul(a, b) ==
    LET neg == Neg(a) # Neg(b) IN
    IF IsNaN(a) \/ IsNaN(b) THEN NaN
    ELSE IF (IsInf(a) /\ IsZero(b)) \/ (IsZero(a) /\ IsInf(b)) THEN NaN
    ELSE IF IsInf(a) \/ IsInf(b) THEN SignedInf(neg)
    ELSE IF IsZero(a) \/ IsZero(b) THEN SignedZero(neg)
    ELSE RoundBig(Sgn(neg), BMul(a[2], b[2]), a[3] + b[3])

\* the next n <= 28 quotient bits of R / D, for R < 2 D:
\* << the bits as an integer, the remainder scaled by 2^n >>
RECURSIVE DivBits(_, _, _, _)
DivBits(R, D, q, n) ==
    IF n = 0 THEN << q, R >>
    ELSE LET ge == BCmp(R, D) >= 0
             R1 == BMulSmall(IF ge THEN BSub(R, D) ELSE R, 2)
             q1 == 2 * q + (IF ge THEN 1 ELSE 0)
         IN  IF q1 >= 0 /\ Len(R1) >= 0 THEN DivBits(R1, D, q1, n - 1) ELSE << >>

HalfDiv == 28

FDiv(a, b) ==
    LET neg == Neg(a) # Neg(b) IN
    IF IsNaN(a) \/ IsNaN(b) THEN NaN
    ELSE IF (IsInf(a) /\ IsInf(b)) \/ (IsZero(a) /\ IsZero(b)) THEN NaN
    ELSE IF IsInf(a) \/ IsZero(b) THEN SignedInf(neg)
    ELSE IF IsInf(b) \/ IsZero(a) THEN SignedZero(neg)
    ELSE LET hi == DivBits(a[2], b[2], 0, HalfDiv)
             lo == DivBits(hi[2], b[2], 0, HalfDiv)
             \* floor(Ma * 2^(2 HalfDiv - 1) / Mb), then a sticky bit
             Q == BAdd(BShl(BFromInt(hi[1]), HalfDiv), BFromInt(lo[1]))
             P == BAdd(BMulSmall(Q, 2), IF lo[2] # << >> THEN << 1 >> ELSE << >>)
         IN  RoundBig(Sgn(neg), P, a[3] - b[3] - 2 * HalfDiv)

\* a <= b ; every comparison with nan is False
MagLe(a, b) ==  \* |a| <= |b| for finite non-zero a, b
    LET la == a[3] + MantBits
        lb == b[3] + MantBits
    IN  IF la # lb THEN la < lb ELSE BCmp(a[2], b[2]) <= 0
FLe(a, b) ==
    IF IsNaN(a) \/ IsNaN(b) THEN FALSE
    ELSE IF a = NInf \/ b = PInf THEN TRUE
    ELSE IF a = PInf \/ b = NInf THEN FALSE
    ELSE IF IsZero(a) THEN (IsZero(b) \/ ~Neg(b))
    ELSE IF IsZero(b) THEN Neg(a)
    ELSE IF Neg(a) # Neg(b) THEN Neg(a)
    ELSE IF Neg(a) THEN MagLe(b, a) ELSE MagLe(a, b)

FEq(a, b) == FLe(a, b) /\ FLe(b, a)
FLt(a, b) == FLe(a, b) /\ ~FLe(b, a)

\* the decimal literal or cell n/d: the nearest double
Frac(n, d) == FDiv(F(n), F(d))

CIEN == F(100)

\* numpy.rint: the nearest integer, ties to even, as a double
Rint(a) ==
    IF ~IsFin(a) \/ IsZero(a) THEN a
    ELSE IF a[3] >= 0 THEN a
    ELSE LET sh == -a[3]
             q0 == BShr(a[2], sh)
             up == BBit(a[2], sh - 1) = 1
                   /\ (BLowNonZero(a[2], sh - 1) \/ Limb(q0, 1) % 2 = 1)
             q == IF up THEN BAdd(q0, << 1 >>) ELSE q0
         IN  IF q = << >> THEN SignedZero(Neg(a)) ELSE RoundBig(a[1], q, 0)

\* rint(a * 100.0) as a non-negative integer, for finite a below 2^31 / 100
CentavosAbs(a) ==
    LET r == Rint(FMul(a, CIEN))
    IN  IF IsZero(r) THEN 0
        ELSE IF r[3] >= 0 THEN BToInt(BShl(r[2], r[3]))
        ELSE BToInt(BShr(r[2], -r[3]))

\* round(a, 2) of a numpy.float64: rint(a * 100.0) / 100.0, each step a
\* double operation
RoundNumpy(a) == FDiv(Rint(FMul(a, CIEN)), CIEN)

\* |a| * 100, the exact product, rounded to an integer, ties to even, for
\* finite a below 2^31 / 100
CentavosExactos(a) ==
    IF IsZero(a) THEN 0
    ELSE LET P == BMulSmall(a[2], 100)
             sh == -a[3]
         IN  IF sh <= 0 THEN BToInt(BShl(P, -sh))
             ELSE LET q == BToInt(BShr(P, sh))
                      up == BBit(P, sh - 1) = 1
                            /\ (BLowNonZero(P, sh - 1) \/ q % 2 = 1)
                  IN  IF up THEN q + 1 ELSE q

\* round(a, 2) of a Python float: the value correctly rounded to two decimal
\* places, ties (of the binary value) to even, as the nearest double
RoundPython(a) ==
    IF ~IsFin(a) \/ IsZero(a) THEN a
    ELSE LET c == CentavosExactos(a)
         IN  IF c = 0 THEN SignedZero(Neg(a))
             ELSE FDiv(F(Sgn(Neg(a)) * c), CIEN)

\* round(a, 2), a a numpy.float64 (np) or a Python float
Round2(a, np) == IF np THEN RoundNumpy(a) ELSE RoundPython(a)

(***************************************************************************)
(* Inputs: the workbook, the two selected rows, the sidebar                *)
(***************************************************************************)
MaxAnios == 10

\* a cell that holds text instead of a number
Texto == << 0, << >>, 2 >>
EsTexto(c) == c = Texto

CLAVE_TC == "Tipo de cambio (S/ a USD)"
CLAVE_GAS == "Costo gasolina (PEN/gal)"
CLAVE_ELEC == "Costo electricidad (PEN/kWh)"

\* the literals of the script
DEFECTO_TC == Frac(375, 100)
DEFECTO_GAS == Frac(1599, 100)
DEFECTO_ELEC == Frac(5634, 10000)
LITROS_POR_GALON == Frac(378541, 100000)
FACTOR_IGV == Frac(82, 100)

\* a sheet that sets the three parameters (4 PEN/USD, 15.14164 PEN/gal, 0.5
\* PEN/kWh), a sheet that sets none of them, and a sheet whose exchange rate
\* is 0
HojaCompleta ==
    [k \in {CLAVE_TC, CLAVE_GAS, CLAVE_ELEC} |->
        CASE k = CLAVE_TC -> F(4)
          [] k = CLAVE_GAS -> Frac(1514164, 100000)
          [] k = CLAVE_ELEC -> Frac(1, 2)]
HojaVacia == [k \in {} |-> PZero]
HojaSinCambio == [k \in { CLAVE_TC } |-> PZero]
Configuraciones == { HojaCompleta, HojaVacia, HojaSinCambio }

\* dict.get(key, default)
Get(d, k, default) == IF k \in DOMAIN d THEN d[k] ELSE default

TIPO_CAMBIO == Get(config, CLAVE_TC, DEFECTO_TC)
PRECIO_GASOLINA == Get(config, CLAVE_GAS, DEFECTO_GAS)
PRECIO_ELECTRICIDAD == Get(config, CLAVE_ELEC, DEFECTO_ELEC)

\* what the workbook can be: complete, missing, or without vehicles of a type
Libros == { "ok", "sin_archivo", "sin_combustion", "sin_electrico" }

\* rows of the 'Vehículos' sheet; the same 'Marca Modelo' may be listed under
\* both types; an empty cell is read as nan
NombresGas == { "Hyundai Kona", "Toyota Yaris" }
NombresElec == { "Hyundai Kona" }
PreciosGas == { F(20000) }
PreciosElec == { F(15000), F(20000), Frac(20124995, 1000), F(30000) }
ConsumosGas == { NaN, Texto, F(0), F(-10), F(10) }
ConsumosElec == { NaN, Texto, F(0), Frac(-1, 5), Frac(1, 5), Frac(4, 5) }
\* dtypes of the columns "Consumo (km/l)", "Consumo (kWh/km)", "Precio (USD)":
\* all numeric, text in some row of each, text in the kWh/km column only
Columnas == { << "float64", "float64", "float64" >>,
              << "object", "object", "object" >>,
              << "float64", "object", "float64" >> }
\* values of the two sliders
KmOpciones == { 5000, 20000 }
AniosOpciones == { 1, 3, MaxAnios }

Mensajes == { "boton", "error_archivo", "error_vacio", "error_gas", "error_elec",
              "TypeError", "ZeroDivisionError", "success", "info" }

(***************************************************************************)
(* The script                                                              *)
(***************************************************************************)
COL_ANIO == "Año"
COL_DIF == "Diferencia (USD)"

\* f"{nombre_elec} (con incentivo)"
ConIncentivo(n) ==
    CASE n = "Hyundai Kona" -> "Hyundai Kona (con incentivo)"
      [] n = "Toyota Yaris" -> "Toyota Yaris (con incentivo)"

NombreElecFull(n, igv) == IF igv THEN ConIncentivo(n) ELSE n
nombre_elec_full == NombreElecFull(nombre_elec, INCLUIR_IGV)

\* precio_elec_usd_base * 0.82 if INCLUIR_IGV else precio_elec_usd_base
PrecioElec(base, igv) == IF igv THEN FMul(base, FACTOR_IGV) ELSE base

\* variant: a validation that lets a zero consumption through
ConsumoInvalidoEstricto(c) == FLt(c, PZero) \/ IsNaN(c)
\* consumo <= 0 or pd.isna(consumo), for a numeric cell
ConsumoInvalido(c) == FLe(c, PZero) \/ IsNaN(c)

\* the divisions of costo_anual_gasolina and of costo_anual_electrico that
\* raise ZeroDivisionError: a zero divisor under a Python float; under a
\* numpy.float64 the quotient is inf or nan
GasolinaLanza ==
    \/ dtype_km_l = "object" /\ IsZero(consumo_km_l)
    \/ IsZero(LITROS_POR_GALON)
    \/ dtype_km_l = "object" /\ IsZero(TIPO_CAMBIO)
ElectricoLanza == dtype_kwh_km = "object" /\ IsZero(TIPO_CAMBIO)

\* the two annual costs, where the division does not raise
costo_anual_gasolina(km) ==
    LET litros_consumidos == FDiv(F(km), consumo_km_l)
        costo_litro == FDiv(PRECIO_GASOLINA, LITROS_POR_GALON)
    IN  FDiv(FMul(litros_consumidos, costo_litro), TIPO_CAMBIO)

costo_anual_electrico(km) ==
    FDiv(FMul(FMul(F(km), consumo_kwh_km), PRECIO_ELECTRICIDAD), TIPO_CAMBIO)

\* variant: range(ANIOS)
UltimoAnioCorto == ANIOS - 1
\* the last value of range(ANIOS + 1)
UltimoAnio == ANIOS

\* the accumulator of year a is a numpy.float64: the price is one, or a cost
\* that is one has been added
GasNumpy(a) == dtype_precio = "float64" \/ (a > 0 /\ dtype_km_l = "float64")
ElecNumpy(a) == dtype_precio = "float64" \/ (a > 0 /\ dtype_kwh_km = "float64")

\* one row of resultados: a dict literal, where a repeated key keeps the
\* value written last
Registro(a, gas, elec) ==
    [ k \in { COL_ANIO, nombre_gas, nombre_elec_full, COL_DIF } |->
        IF k = COL_DIF THEN Round2(FSub(gas, elec), GasNumpy(a) \/ ElecNumpy(a))
        ELSE IF k = nombre_elec_full THEN Round2(elec, ElecNumpy(a))
        ELSE IF k = nombre_gas THEN Round2(gas, GasNumpy(a))
        ELSE a ]

\* the accumulators after the loop body's "if anio > 0" for year a
Acumulado(a, acum, anual) == IF a > 0 THEN FAdd(acum, anual) ELSE acum

\* resultados_df[resultados_df["Diferencia (USD)"] <= 0]
breakeven(df) == SelectSeq(df, LAMBDA r : FLe(r[COL_DIF], PZero))

\* df.iloc[i]: a negative position counts from the end
iloc(df, i) == IF i < 0 THEN df[Len(df) + i + 1] ELSE df[i + 1]

\* the rows the script takes as the two samples
FilaX1(be) == iloc(be, 0 - 1)
FilaX2(be) == iloc(be, 0)

\* (y2 - y1) / (x2 - x1) on numpy float64: x / 0 is inf or nan
Pendiente(py1, py2, px1, px2) == FDiv(FSub(py2, py1), FSub(px2, px1))
\* variant: the quotient added instead of subtracted
InterseccionSumada(py2, px2, pend) == FAdd(px2, FDiv(py2, pend))
\* x2 - (y2 / pendiente)
Interseccion(py2, px2, pend) == FSub(px2, FDiv(py2, pend))

SinCorrida ==
    /\ precio_elec_usd = Nulo /\ anio = 0
    /\ costo_acum_gas = Nulo /\ costo_acum_elec = Nulo
    /\ resultados = << >>
    /\ x1 = Nulo /\ x2 = Nulo /\ y1 = Nulo /\ y2 = Nulo
    /\ pendiente = Nulo /\ interseccion = Nulo

\* the workbook is complete: the sidebar is drawn and the button awaited
InitListo ==
    /\ pc = "espera"
    /\ mensaje = "boton"
    /\ config \in Configuraciones
    /\ nombre_gas \in NombresGas
    /\ nombre_elec \in NombresElec
    /\ consumo_km_l \in ConsumosGas
    /\ consumo_kwh_km \in ConsumosElec
    /\ precio_gas_usd \in PreciosGas
    /\ precio_elec_usd_base \in PreciosElec
    /\ \E c \in Columnas :
          dtype_km_l = c[1] /\ dtype_kwh_km = c[2] /\ dtype_precio = c[3]
    /\ EsTexto(consumo_km_l) => dtype_km_l = "object"
    /\ EsTexto(consumo_kwh_km) => dtype_kwh_km = "object"
    /\ KM_ANUALES \in KmOpciones
    /\ ANIOS \in AniosOpciones
    /\ INCLUIR_IGV \in BOOLEAN

\* the file is missing, or one of the two types has no vehicle: st.error and
\* st.stop() before the sidebar exists
InitSinDatos ==
    /\ pc = "stop_datos"
    /\ \E libro \in Libros \ { "ok" } :
          /\ mensaje = IF libro = "sin_archivo" THEN "error_archivo" ELSE "error_vacio"
          /\ config = IF libro = "sin_archivo" THEN Nulo ELSE HojaCompleta
    /\ nombre_gas = "" /\ nombre_elec = ""
    /\ consumo_km_l = Nulo /\ consumo_kwh_km = Nulo
    /\ precio_gas_usd = Nulo /\ precio_elec_usd_base = Nulo
    /\ dtype_km_l = "" /\ dtype_kwh_km = "" /\ dtype_precio = ""
    /\ KM_ANUALES = 0 /\ ANIOS = 0 /\ INCLUIR_IGV = FALSE

Init ==
    /\ InitListo \/ InitSinDatos
    /\ anterior = Nulo
    /\ SinCorrida

\* "Consultar" pressed: rows extracted, incentive applied, validations, and
\* the accumulators initialised
Consultar ==
    /\ pc = "espera"
    /\ precio_elec_usd' = PrecioElec(precio_elec_usd_base, INCLUIR_IGV)
    /\ IF EsTexto(consumo_km_l)
       THEN /\ mensaje' = "TypeError"
            /\ pc' = "excepcion"
            /\ UNCHANGED << costo_acum_gas, costo_acum_elec >>
       ELSE IF ConsumoInvalido(consumo_km_l)
       THEN /\ mensaje' = "error_gas"
            /\ pc' = "stop"
            /\ UNCHANGED << costo_acum_gas, costo_acum_elec >>
       ELSE IF EsTexto(consumo_kwh_km)
       THEN /\ mensaje' = "TypeError"
            /\ pc' = "excepcion"
            /\ UNCHANGED << costo_acum_gas, costo_acum_elec >>
       ELSE IF ConsumoInvalido(consumo_kwh_km)
       THEN /\ mensaje' = "error_elec"
            /\ pc' = "stop"
            /\ UNCHANGED << costo_acum_gas, costo_acum_elec >>
       ELSE /\ costo_acum_gas' = precio_gas_usd
            /\ costo_acum_elec' = precio_elec_usd'
            /\ pc' = "acumular"
            /\ UNCHANGED mensaje
    /\ UNCHANGED << config, entradas, INCLUIR_IGV, anio, resultados,
                    x1, x2, y1, y2, pendiente, interseccion, anterior >>

\* one iteration of "for anio in range(ANIOS + 1)", or the
\* ZeroDivisionError that ends the run inside it: in costo_anual_gasolina, or
\* in costo_anual_electrico after the combustion accumulator was updated
Iterar ==
    /\ pc = "acumular"
    /\ anio <= UltimoAnio
    /\ IF anio > 0 /\ GasolinaLanza
       THEN /\ pc' = "excepcion"
            /\ mensaje' = "ZeroDivisionError"
            /\ UNCHANGED << anio, costo_acum_gas, costo_acum_elec, resultados >>
       ELSE IF anio > 0 /\ ElectricoLanza
       THEN /\ costo_acum_gas' = Acumulado(anio, costo_acum_gas, costo_anual_gasolina(KM_ANUALES))
            /\ pc' = "excepcion"
            /\ mensaje' = "ZeroDivisionError"
            /\ UNCHANGED << anio, costo_acum_elec, resultados >>
       ELSE /\ costo_acum_gas' = Acumulado(anio, costo_acum_gas, costo_anual_gasolina(KM_ANUALES))
            /\ costo_acum_elec' = Acumulado(anio, costo_acum_elec, costo_anual_electrico(KM_ANUALES))
            /\ resultados' = Append(resultados, Registro(anio, costo_acum_gas', costo_acum_elec'))
            /\ anio' = anio + 1
            /\ UNCHANGED << pc, mensaje >>
    /\ UNCHANGED << config, entradas, INCLUIR_IGV, precio_elec_usd,
                    x1, x2, y1, y2, pendiente, interseccion, anterior >>

\* "Cálculo del punto de equilibrio", after the loop has ended
PuntoEquilibrio ==
    /\ pc = "acumular"
    /\ anio > UltimoAnio
    /\ LET be == breakeven(resultados) IN
       IF be # << >>
       THEN /\ x1' = F(FilaX1(be)[COL_ANIO])
            /\ x2' = F(FilaX2(be)[COL_ANIO])
            /\ y1' = FilaX1(be)[COL_DIF]
            /\ y2' = FilaX2(be)[COL_DIF]
            /\ pendiente' = Pendiente(y1', y2', x1', x2')
            /\ interseccion' = Interseccion(y2', x2', pendiente')
            /\ mensaje' = "success"
       ELSE /\ mensaje' = "info"
            /\ UNCHANGED << x1, x2, y1, y2, pendiente, interseccion >>
    /\ pc' = "fin"
    /\ UNCHANGED << config, entradas, INCLUIR_IGV, precio_elec_usd, anio,
                    costo_acum_gas, costo_acum_elec, resultados, anterior >>

\* the incentive checkbox is toggled: the script reruns without "Consultar",
\* the other widgets keep their values; what the finished run showed is kept
\* in anterior
CambiarIncentivo ==
    /\ pc \in { "fin", "stop", "excepcion" }
    /\ INCLUIR_IGV' = ~INCLUIR_IGV
    /\ anterior' = [ igv |-> INCLUIR_IGV, mensaje |-> mensaje, resultados |-> resultados ]
    /\ pc' = "espera"
    /\ mensaje' = "boton"
    /\ precio_elec_usd' = Nulo /\ anio' = 0
    /\ costo_acum_gas' = Nulo /\ costo_acum_elec' = Nulo
    /\ resultados' = << >>
    /\ x1' = Nulo /\ x2' = Nulo /\ y1' = Nulo /\ y2' = Nulo
    /\ pendiente' = Nulo /\ interseccion' = Nulo
    /\ UNCHANGED << config, entradas >>

Next == Consultar \/ Iterar \/ PuntoEquilibrio \/ CambiarIncentivo

Spec == Init /\ [][Next]_vars

\* shape of the run state
TypeOK ==
    /\ pc \in { "espera", "acumular", "fin", "stop", "excepcion", "stop_datos" }
    /\ mensaje \in Mensajes
    /\ anio \in 0 .. (MaxAnios + 2)
    /\ Len(resultados) = anio

(***************************************************************************)
(* Properties                                                              *)
(***************************************************************************)
\* a recorded amount (two decimals) or any finite double below 2^31 / 100, in
\* whole cents
Centavos(a) == Sgn(Neg(a)) * CentavosAbs(a)

Anual_gas == costo_anual_gasolina(KM_ANUALES)
Anual_elec == costo_anual_electrico(KM_ANUALES)

\* a consumption cell that is zero, negative or empty
NoPositivoOFaltante(c) == IsNaN(c) \/ IsZero(c) \/ (~EsTexto(c) /\ Neg(c))
EntradaInvalida == NoPositivoOFaltante(consumo_km_l) \/ NoPositivoOFaltante(consumo_kwh_km)

Filas == 1 .. Len(resultados)
Dif(i) == resultados[i][COL_DIF]
\* the rows whose recorded difference is <= 0
FilasNoPositivas == { i \in Filas : FLe(Dif(i), PZero) }
Primera == CHOOSE i \in FilasNoPositivas : \A j \in FilasNoPositivas : i <= j
Ultima == CHOOSE i \in FilasNoPositivas : \A j \in FilasNoPositivas : j <= i
Reportado == pc = "fin" /\ mensaje = "success"

\* the recorded differences lie on a line of non-zero slope, cent for cent
PasoCentavos == Centavos(Dif(2)) - Centavos(Dif(1))
SerieLineal ==
    /\ \A i \in Filas : IsFin(Dif(i))
    /\ PasoCentavos # 0
    /\ \A i \in Filas \ { 1 } : Centavos(Dif(i)) - Centavos(Dif(i - 1)) = PasoCentavos
\* difference(0) + s * t, in doubles, s the slope of the recorded line
ValorDeLaRecta(t) == FAdd(Dif(1), FMul(FDiv(F(PasoCentavos), F(100)), t))

\* the two cumulative costs at the (fractional) year t differ by less than
\* half a cent
CostosIgualesEn(t) ==
    CentavosAbs(FSub(FAdd(precio_gas_usd, FMul(Anual_gas, t)),
                     FAdd(precio_elec_usd, FMul(Anual_elec, t)))) = 0

Cerca(a, b) == Abs(a - b) <= 1

\* the exchange rate of the sheet is positive: the annual costs are finite
TasaPositiva == FLt(PZero, TIPO_CAMBIO)

\* C1: a finished run with a positive exchange rate (consumptions and prices
\* are positive in every run that finishes) has ANIOS + 1 records, record i
\* carries year i, and each vehicle's recorded cumulative cost never
\* decreases from a year to the next
C1_ProyeccionOrdenada ==
    (pc = "fin" /\ TasaPositiva) =>
        /\ Len(resultados) = ANIOS + 1
        /\ \A i \in Filas : resultados[i][COL_ANIO] = i - 1
        /\ \A i \in Filas \ { 1 } :
              /\ FLe(resultados[i - 1][nombre_gas], resultados[i][nombre_gas])
              /\ FLe(resultados[i - 1][nombre_elec_full], resultados[i][nombre_elec_full])

C1_Testigo ==
    /\ pc = "fin"
    /\ TasaPositiva
    /\ ANIOS = MaxAnios
    /\ nombre_gas # nombre_elec_full
    /\ FLt(resultados[1][nombre_gas], resultados[ANIOS + 1][nombre_gas])
    /\ FLt(resultados[1][nombre_elec_full], resultados[ANIOS + 1][nombre_elec_full])

\* C2: when the combustion car is strictly cheaper at every year of the
\* horizon, the run reports that break-even is not reached
C2_NoAlcanzado ==
    (pc = "fin" /\ \A i \in Filas : FLt(Dif(i), PZero)) => mensaje = "info"

\* C3: when the electric car is cheaper at year 0 and its annual cost is not
\* higher, the run reports break-even at year 0 without interpolating
C3_EquilibrioEnCero ==
    (/\ pc = "fin"
     /\ FLt(precio_elec_usd, precio_gas_usd)
     /\ FLe(Anual_elec, Anual_gas))
    => /\ mensaje = "success"
       /\ IsZero(interseccion)
       /\ pendiente = Nulo

\* C4: a reported break-even year lies in [0, ANIOS] and the two cumulative
\* costs are equal there
C4_DentroDelHorizonte ==
    (Reportado /\ TasaPositiva) =>
        /\ FLe(PZero, interseccion)
        /\ FLe(interseccion, F(ANIOS))
        /\ CostosIgualesEn(interseccion)

\* C5: the samples of the interpolation are the first year with difference
\* <= 0 and the year before it, whose difference is > 0, and the reported
\* year lies between the two
C5_AniosContiguos ==
    Reportado =>
        /\ x2 = F(Primera - 1)
        /\ x1 = F(Primera - 2)
        /\ Primera > 1
        /\ ~FLe(Dif(Primera - 1), PZero)
        /\ FLe(x1, interseccion)
        /\ FLe(interseccion, x2)

\* C6: a run that interpolates never divides by zero: the two sample years
\* differ and the slope is not zero
C6_SinDivisionPorCero ==
    Reportado =>
        /\ ~FEq(x1, x2)
        /\ ~IsNaN(pendiente)
        /\ ~IsZero(pendiente)

\* C7: with a zero, negative or empty consumption of either car the run ends
\* in an error before the loop: no record, no break-even message; the error
\* is st.error and st.stop() unless the km/l cell, compared first, is text
C7_ValidacionDetiene ==
    (pc \notin { "espera", "stop_datos" } /\ EntradaInvalida) =>
        /\ resultados = << >>
        /\ costo_acum_gas = Nulo /\ costo_acum_elec = Nulo
        /\ interseccion = Nulo
        /\ IF EsTexto(consumo_km_l)
           THEN pc = "excepcion" /\ mensaje = "TypeError"
           ELSE pc = "stop" /\ mensaje \in { "error_gas", "error_elec" }

C7_Testigo ==
    /\ pc = "stop"
    /\ mensaje = "error_elec"
    /\ IsZero(consumo_kwh_km)
    /\ ~NoPositivoOFaltante(consumo_km_l)

\* the tables of the run with the incentive and of the run without it, when
\* the checkbox was toggled between two finished runs
DosCorridas ==
    /\ pc = "fin"
    /\ anterior # Nulo
    /\ anterior.mensaje \in { "success", "info" }
    /\ TasaPositiva
TablaCon == IF INCLUIR_IGV THEN resultados ELSE anterior.resultados
TablaSin == IF INCLUIR_IGV THEN anterior.resultados ELSE resultados
Descuento == Centavos(Round2(FMul(precio_elec_usd_base, Frac(18, 100)), ElecNumpy(0)))

\* C8: between the run without and the run with the incentive, the electric
\* car starts at 0.82 x its list price, its cumulative cost is lower by
\* 0.18 x the list price at every year (to the cent of the rounding), and
\* the combustion car's cumulative cost is the same at every year
C8_IncentivoDesplaza ==
    DosCorridas =>
        /\ TablaCon[1][ConIncentivo(nombre_elec)] = Round2(FMul(precio_elec_usd_base, FACTOR_IGV), ElecNumpy(0))
        /\ \A i \in Filas :
              /\ Cerca(Centavos(TablaSin[i][nombre_elec])
                         - Centavos(TablaCon[i][ConIncentivo(nombre_elec)]), Descuento)
              /\ TablaCon[i][nombre_gas] = TablaSin[i][nombre_gas]

\* C9: in every record of year y each car's cumulative cost is its price
\* (the electric one's after the incentive) plus y times its annual cost, the
\* year-0 record holds the two prices, and the difference is combustion minus
\* electric (each to the cent of the rounding)
C9_CostoAcumulado ==
    (pc = "fin" /\ TasaPositiva) =>
        /\ resultados[1][nombre_gas] = Round2(precio_gas_usd, GasNumpy(0))
        /\ resultados[1][nombre_elec_full] = Round2(precio_elec_usd, ElecNumpy(0))
        /\ \A i \in Filas :
              /\ Cerca(Centavos(resultados[i][nombre_gas]),
                       Centavos(FAdd(precio_gas_usd, FMul(F(i - 1), Anual_gas))))
              /\ Cerca(Centavos(resultados[i][nombre_elec_full]),
                       Centavos(FAdd(precio_elec_usd, FMul(F(i - 1), Anual_elec))))
              /\ Cerca(Centavos(Dif(i)),
                       Centavos(resultados[i][nombre_gas])
                         - Centavos(resultados[i][nombre_elec_full]))

\* the samples of a reported break-even are the first and the last year whose
\* recorded difference is <= 0
MuestrasExtremas ==
    /\ x2 = F(Primera - 1) /\ y2 = Dif(Primera)
    /\ x1 = F(Ultima - 1) /\ y1 = Dif(Ultima)

Exponente(a) == a[3] + MantBits - 1

====
